---- MODULE Spec2Model ----
\* A model of the B-tree of src/btree.rs (smvv/rust-btree): one fixed-capacity
\* node type holding `used` keys and up to 2t slots, top-down insertion with
\* proactive splitting, lookup by linear scan, and clear.
\*
\* Arrays are functions over 0-based index ranges, as in the source.  An
\* Option is a record tagged "None" or "Some"; a slot (Option<TreeItem>) is a
\* record tagged "None", "TreeNode" (a child node) or "TreeLeaf" (a value).
\* A failing task (fail!(), an unwrap of None, an index out of bounds) is
\* carried as ok = FALSE in the result of the function that hit it.
EXTENDS Integers, Sequences, FiniteSets, TLC

\* ---------------------------------------------------------------- bounds
\* Keys are 0..KeySpace-1.
KeySpace == 1301
\* Number of scripted insert calls in Spec and SpecDistinct.
ScriptLen == 1200
\* Every RepeatEvery-th scripted call of Spec repeats an earlier key.
RepeatEvery == 8
\* Number of scripted calls one run of the callers' insert loop makes.
LoadChunk == 50
\* Number of free calls (insert, find, clear) a caller of Spec makes.
MaxProbes == 2
\* Number of keys each of the two trees of SpecOrder receives.
OrderLen == 45
\* Keys 1..MaxTestKey, each inserted at most once, in SpecTest.
MaxTestKey == 10

Keys == 0..(KeySpace - 1)

\* ------------------------------------------------------- program constants
\* src/btree.rs:44-47, the build as shipped: t = 20, 39 keys and 40 slots.
BTREE_MIN_DEGREE == 20
BTREE_KEYS_LBOUND == BTREE_MIN_DEGREE - 1
BTREE_KEYS_UBOUND == 2 * BTREE_MIN_DEGREE - 1

\* src/btree.rs:45, the build the commented structural tests (lines 648-742)
\* ask for: t = 2, 3 keys and 4 slots (the array literals of lines 69-70).
TEST_MIN_DEGREE == 2

\* ------------------------------------------------------------- data model
None == [tag |-> "None"]
Some(x) == [tag |-> "Some", value |-> x]
TreeNode(n) == [tag |-> "TreeNode", value |-> n]
TreeLeaf(v) == [tag |-> "TreeLeaf", value |-> v]
\* The outcome of a call that ended in task failure.
Panic == [tag |-> "Panic"]

\* BTree::new as shipped (lines 73-83): `used` 0, 2t-1 empty key cells and 2t
\* empty slots.
new ==
    [used |-> 0,
     keys |-> [i \in 0..(BTREE_KEYS_UBOUND - 1) |-> None],
     nodes |-> [i \in 0..BTREE_KEYS_UBOUND |-> None]]

\* BTree::new of the test build (lines 68-70)
new_test ==
    [used |-> 0,
     keys |-> [i \in 0..(2 * TEST_MIN_DEGREE - 2) |-> None],
     nodes |-> [i \in 0..(2 * TEST_MIN_DEGREE - 1) |-> None]]

\* BTree::new in the build with minimum degree t.
new_of(t) == IF t = TEST_MIN_DEGREE THEN new_test ELSE new

\* The index ranges of a node's two arrays.
KeyIdx(tree) == DOMAIN tree.keys
NodeIdx(tree) == DOMAIN tree.nodes

\* The constants of the build a node was made by, read from its arrays: the
\* key array has BTREE_KEYS_UBOUND = 2t-1 cells.
KeysUbound(tree) == Cardinality(KeyIdx(tree))
MinDegree(tree) == (KeysUbound(tree) + 1) \div 2

\* BTree::capacity
capacity(self) == KeysUbound(self)

\* util::swap / slice.swap on two cells of one array
swap(arr, a, b) == [arr EXCEPT ![a] = arr[b], ![b] = arr[a]]

\* --------------------------------------------------------------- search
\* Mutant of find_node_pos_from: the scan stops at the first greater key only.
RECURSIVE find_node_pos_from_lt(_, _, _)
find_node_pos_from_lt(tree, key, i) ==
    IF i \notin KeyIdx(tree) THEN tree.used
    ELSE IF tree.keys[i].tag = "Some"
         THEN IF key < tree.keys[i].value THEN i
              ELSE find_node_pos_from_lt(tree, key, i + 1)
         ELSE tree.used

\* find_node_pos: the linear scan over the whole key array.
RECURSIVE find_node_pos_from(_, _, _)
find_node_pos_from(tree, key, i) ==
    IF i \notin KeyIdx(tree) THEN tree.used
    ELSE IF tree.keys[i].tag = "Some"
         THEN IF key <= tree.keys[i].value THEN i
              ELSE find_node_pos_from(tree, key, i + 1)
         ELSE tree.used

find_node_pos(tree, key) == find_node_pos_from(tree, key, 0)

\* Mutant of find_leaf_match: the overflow slot is no match; only an equal key is.
find_leaf_match_keyed(current, pos, key) ==
    pos \in KeyIdx(current) /\ current.keys[pos].tag = "Some" /\ current.keys[pos].value = key

\* The leaf case of find: the overflow slot (pos = used) matches any key.
find_leaf_match(current, pos, key) ==
    IF pos = current.used THEN TRUE
    ELSE current.keys[pos].value = key

\* BTree::find.  Some(v), None, or Panic (index out of bounds, get_ref of None).
RECURSIVE find(_, _)
find(current, key) ==
    IF current.nodes[0].tag = "None" THEN None
    ELSE LET pos == find_node_pos(current, key) IN
         IF pos \notin NodeIdx(current) THEN Panic
         ELSE LET item == current.nodes[pos] IN
              IF item.tag = "TreeNode" THEN find(item.value, key)
              ELSE IF item.tag = "TreeLeaf"
                   THEN IF pos # current.used
                           /\ (pos \notin KeyIdx(current) \/ current.keys[pos].tag = "None")
                        THEN Panic
                        ELSE IF find_leaf_match(current, pos, key)
                             THEN Some(item.value) ELSE None
                   ELSE None

\* --------------------------------------------------------------- split
\* Result of a step on a node: the node and whether the task is still alive.
Ok(tree) == [ok |-> TRUE, tree |-> tree]
Fail(tree) == [ok |-> FALSE, tree |-> tree]

\* split_child, lines 259-265: open a gap at keys[pos] / nodes[pos+1].
RECURSIVE split_child_shift(_, _, _)
split_child_shift(tree, i, pos) ==
    IF i > pos
    THEN IF (i + 1) \notin NodeIdx(tree) \/ i \notin KeyIdx(tree) THEN Fail(tree)
         ELSE split_child_shift([tree EXCEPT !.nodes = swap(@, i, i + 1),
                                             !.keys = swap(@, i - 1, i)], i - 1, pos)
    ELSE Ok(tree)

\* Mutant of split_move_keys: the keys are copied to right and stay in left.
RECURSIVE split_move_keys_copy(_, _)
split_move_keys_copy(lr, i) ==
    LET t == MinDegree(lr.left) IN
    IF i < t - 1
    THEN split_move_keys_copy(
            [left |-> lr.left,
             right |-> [lr.right EXCEPT !.keys[i] = lr.left.keys[i + t]]],
            i + 1)
    ELSE lr

\* split_child, lines 274-277: move the larger t-1 keys from left to right.
\* lr is the pair [left, right].
RECURSIVE split_move_keys(_, _)
split_move_keys(lr, i) ==
    LET t == MinDegree(lr.left) IN
    IF i < t - 1
    THEN split_move_keys(
            [left |-> [lr.left EXCEPT !.keys[i + t] = lr.right.keys[i]],
             right |-> [lr.right EXCEPT !.keys[i] = lr.left.keys[i + t]]],
            i + 1)
    ELSE lr

\* Mutant of split_move_nodes: only t-1 slots move; the overflow slot stays behind.
RECURSIVE split_move_nodes_short(_, _)
split_move_nodes_short(lr, i) ==
    LET t == MinDegree(lr.left) IN
    IF i < t - 1
    THEN split_move_nodes_short(
            [left |-> [lr.left EXCEPT !.nodes[i + t] = lr.right.nodes[i]],
             right |-> [lr.right EXCEPT !.nodes[i] = lr.left.nodes[i + t]]],
            i + 1)
    ELSE lr

\* split_child, lines 282-285: move the larger t nodes from left to right.
RECURSIVE split_move_nodes(_, _)
split_move_nodes(lr, i) ==
    LET t == MinDegree(lr.left) IN
    IF i < t
    THEN split_move_nodes(
            [left |-> [lr.left EXCEPT !.nodes[i + t] = lr.right.nodes[i]],
             right |-> [lr.right EXCEPT !.nodes[i] = lr.left.nodes[i + t]]],
            i + 1)
    ELSE lr

\* split_child(tree, pos)
split_child(tree, pos) ==
    LET t == MinDegree(tree)
        sh == split_child_shift(tree, tree.used, pos)
    IN
    IF ~sh.ok THEN sh
    ELSE LET p == sh.tree IN
         IF pos \notin NodeIdx(p) \/ p.nodes[pos].tag # "TreeNode" THEN Fail(p)
         ELSE IF pos \notin KeyIdx(p) \/ (pos + 1) \notin NodeIdx(p) THEN Fail(p)
         ELSE LET lr0 == [left |-> p.nodes[pos].value, right |-> new_of(t)]
                  lr1 == split_move_keys(lr0, 0)
                  lr2 == split_move_nodes(lr1, 0)
                  median == lr2.left.keys[t - 1]
                  left == [lr2.left EXCEPT !.keys[t - 1] = p.keys[pos],
                                           !.used = t - 1]
                  right == [lr2.right EXCEPT !.used = t - 1]
              IN Ok([p EXCEPT !.keys[pos] = median,
                              !.nodes[pos] = TreeNode(left),
                              !.nodes[pos + 1] = TreeNode(right),
                              !.used = p.used + 1])

\* Mutant of is_leaf: any occupied first slot makes the node a leaf.
is_leaf_any(tree) == tree.nodes[0].tag # "None"

\* is_leaf
is_leaf(tree) == tree.nodes[0].tag = "TreeLeaf"

\* --------------------------------------------------------------- insert
\* Result of insert / insert_non_full: the node, the returned bool, the calls
\* made (in call order) and whether the task is still alive.
InsFail(tree, calls) == [ok |-> FALSE, tree |-> tree, ret |-> FALSE, calls |-> calls]

\* Call records kept in `calls`.
EnterNonFull(tree) == [fn |-> "insert_non_full", used |-> tree.used, cap |-> capacity(tree)]
CallSplit(tree, pos, sp) ==
    [fn |-> "split_child", parent |-> tree, pos |-> pos, ok |-> sp.ok, result |-> sp.tree]

\* insert_non_full, lines 322-325: shift keys[pos..used) one to the right.
RECURSIVE leaf_shift_keys(_, _, _)
leaf_shift_keys(tree, i, pos) ==
    IF i > pos
    THEN IF i \notin KeyIdx(tree) THEN Fail(tree)
         ELSE leaf_shift_keys([tree EXCEPT !.keys = swap(@, i - 1, i)], i - 1, pos)
    ELSE Ok(tree)

\* Mutant of leaf_shift_nodes: the slots are not shifted at all.
leaf_shift_nodes_none(tree, i, pos) == Ok(tree)

\* insert_non_full, lines 327-332: shift nodes[pos..used+1) one to the right.
RECURSIVE leaf_shift_nodes(_, _, _)
leaf_shift_nodes(tree, i, pos) ==
    IF i > pos
    THEN IF i \notin NodeIdx(tree) THEN Fail(tree)
         ELSE leaf_shift_nodes([tree EXCEPT !.nodes = swap(@, i - 1, i)], i - 1, pos)
    ELSE Ok(tree)

\* Mutant of is_new_key: only an empty cell makes a key new.
is_new_key_absent(tree, pos, key) == tree.keys[pos].tag = "None"

\* insert_non_full, line 314: is the key at pos absent or another key?
is_new_key(tree, pos, key) ==
    tree.keys[pos].tag = "None" \/ tree.keys[pos].value # key

\* insert_non_full, lines 311-341: the branch taken on an empty node or a leaf.
insert_leaf(tree, key, value) ==
    LET pos == find_node_pos(tree, key) IN
    IF pos \notin KeyIdx(tree) THEN [ok |-> FALSE, tree |-> tree, ret |-> FALSE]
    ELSE LET new_key == is_new_key(tree, pos, key)
             shifted == IF new_key /\ tree.used > 0
                        THEN LET a == leaf_shift_keys(tree, tree.used, pos) IN
                             IF ~a.ok THEN a
                             ELSE leaf_shift_nodes(a.tree, tree.used + 1, pos)
                        ELSE Ok(tree)
         IN IF ~shifted.ok THEN [ok |-> FALSE, tree |-> shifted.tree, ret |-> FALSE]
            ELSE [ok |-> TRUE,
                  tree |-> [shifted.tree EXCEPT
                              !.used = IF new_key THEN @ + 1 ELSE @,
                              !.keys[pos] = Some(key),
                              !.nodes[pos] = TreeLeaf(value)],
                  ret |-> new_key]

\* insert_non_full, lines 361-368: after a split, go right of the median?
pos_after_split(tree, pos, key) ==
    IF tree.keys[pos].tag = "Some" /\ key > tree.keys[pos].value THEN pos + 1 ELSE pos

\* Mutant of child_is_full: off by one, a full child is never seen as full.
child_is_full_late(tree, pos) ==
    tree.nodes[pos].value.used > capacity(tree.nodes[pos].value)

\* insert_non_full, lines 346-351: is the child to descend into full?
child_is_full(tree, pos) ==
    tree.nodes[pos].value.used = capacity(tree.nodes[pos].value)

\* insert_non_full
RECURSIVE insert_non_full(_, _, _)
insert_non_full(tree, key, value) ==
    LET entry == <<EnterNonFull(tree)>> IN
    IF tree.used = 0 \/ is_leaf(tree)
    THEN LET r == insert_leaf(tree, key, value) IN
         [ok |-> r.ok, tree |-> r.tree, ret |-> r.ret, calls |-> entry]
    ELSE LET pos0 == find_node_pos(tree, key) IN
         IF pos0 \notin NodeIdx(tree) \/ tree.nodes[pos0].tag # "TreeNode"
         THEN InsFail(tree, entry)
         ELSE LET split == child_is_full(tree, pos0)
                  sp == IF split THEN split_child(tree, pos0) ELSE Ok(tree)
                  log == IF split THEN entry \o <<CallSplit(tree, pos0, sp)>> ELSE entry
              IN IF ~sp.ok THEN InsFail(sp.tree, log)
                 ELSE LET p == sp.tree
                          pos == IF split THEN pos_after_split(p, pos0, key) ELSE pos0
                      IN IF pos \notin NodeIdx(p) \/ p.nodes[pos].tag # "TreeNode"
                         THEN InsFail(p, log)
                         ELSE LET r == insert_non_full(p.nodes[pos].value, key, value) IN
                              [ok |-> r.ok,
                               tree |-> [p EXCEPT !.nodes[pos] = TreeNode(r.tree)],
                               ret |-> r.ret,
                               calls |-> log \o r.calls]

\* BTree::insert, lines 129-147: move the root's keys and slots into a fresh
\* child (whose `used` stays 0) and make it the only slot of the emptied root.
root_presplit(self) ==
    LET fresh == new_of(MinDegree(self))
        child == [fresh EXCEPT !.nodes = self.nodes, !.keys = self.keys]
    IN [used |-> 0,
        keys |-> fresh.keys,
        nodes |-> [fresh.nodes EXCEPT ![0] = TreeNode(child)]]

\* Mutant of insert: the root is pre-split one key early.
insert_early(self, key, value) ==
    IF self.used >= capacity(self) - 1
    THEN LET wrapped == root_presplit(self)
             sp == split_child(wrapped, 0)
             log == <<CallSplit(wrapped, 0, sp)>>
         IN IF ~sp.ok THEN InsFail(sp.tree, log)
            ELSE LET r == insert_non_full(sp.tree, key, value) IN
                 [r EXCEPT !.calls = log \o r.calls]
    ELSE insert_non_full(self, key, value)

\* BTree::insert
insert(self, key, value) ==
    IF self.used = capacity(self)
    THEN LET wrapped == root_presplit(self)
             sp == split_child(wrapped, 0)
             log == <<CallSplit(wrapped, 0, sp)>>
         IN IF ~sp.ok THEN InsFail(sp.tree, log)
            ELSE LET r == insert_non_full(sp.tree, key, value) IN
                 [r EXCEPT !.calls = log \o r.calls]
    ELSE insert_non_full(self, key, value)

\* ------------------------------------------------- Container and Mutable
\* Container::len
len(self) == self.used

\* Container::is_empty
is_empty(self) == self.nodes[0].tag = "None"

\* Mutant of clear: the keys and the count are reset, the slots are not.
clear_keep_nodes(self) ==
    [used |-> 0, keys |-> new_of(MinDegree(self)).keys, nodes |-> self.nodes]

\* Mutable::clear
clear(self) ==
    [used |-> 0, keys |-> new_of(MinDegree(self)).keys, nodes |-> new_of(MinDegree(self)).nodes]

\* ------------------------------------------------------------------ state
VARIABLES
    btree,     \* the root node the caller owns (`t` in the tests)
    inserted,  \* history: key -> value of its latest insert since new()/clear()
    lastOp,    \* the latest call: its name, arguments and returned bool
    calls,     \* the insert_non_full / split_child calls made by the latest insert
    failed,    \* the task has failed (fail!(), unwrap of None, index out of bounds)
    loaded,    \* number of scripted insert calls made on btree
    probes,    \* number of free calls made on btree
    btree2,    \* a second, independent tree (only SpecOrder inserts into it)
    inserted2, \* history of btree2, as `inserted`
    loaded2    \* number of insert calls made on btree2

vars == <<btree, inserted, lastOp, calls, failed, loaded, probes, btree2, inserted2, loaded2>>

Op(op, key, value, ret) == [op |-> op, key |-> key, value |-> value, ret |-> ret]

\* The history after insert(k, v).
Record(ins, k, v) == [x \in (DOMAIN ins) \cup {k} |-> IF x = k THEN v ELSE ins[x]]

\* The state after `root` has been constructed.
InitOver(root) ==
    /\ btree = root
    /\ inserted = <<>>
    /\ lastOp = Op("new", 0, 0, FALSE)
    /\ calls = <<>>
    /\ failed = FALSE
    /\ loaded = 0
    /\ probes = 0
    /\ btree2 = root
    /\ inserted2 = <<>>
    /\ loaded2 = 0

\* t.insert(k, v): the state after the call came back with outcome r.
Returned(r, k, v) ==
    /\ btree' = r.tree
    /\ failed' = ~r.ok
    /\ calls' = r.calls
    /\ lastOp' = Op("insert", k, v, r.ret)
    /\ inserted' = Record(inserted, k, v)

DoInsert(k, v) == Returned(insert(btree, k, v), k, v)

\* --------------------------------------------------- the callers' scripts
\* The callers of the repository insert a shuffled range of keys in a loop
\* (src/btree.rs:751-758, src/btree_bench.rs:14-25).  The shuffle is a fixed
\* scrambling of the call number: call i brings the key 37 * i mod KeySpace.
Scramble(i) == (i * 37) % KeySpace

\* Key and value of the i-th scripted call.  The script "distinct" gives every
\* key once, with itself as its value.  The script "mixed" repeats the key of
\* call i/2 at every RepeatEvery-th call, and gives the call number as value.
ScriptKey(s, i) ==
    IF s = "mixed" /\ i % RepeatEvery = 0 THEN Scramble(i \div 2) ELSE Scramble(i)

ScriptVal(s, i) == IF s = "mixed" THEN i ELSE ScriptKey(s, i)

\* One round of the insert loop: r is the outcome of insert(k, v) on st.tree.
load_step(st, r, k, v) == [tree |-> r.tree, ins |-> Record(st.ins, k, v), ok |-> r.ok]

\* The insert loop, calls i..last of script s, on [tree, ins, ok].
RECURSIVE load_loop(_, _, _, _)
load_loop(st, s, i, last) ==
    IF i > last \/ ~st.ok THEN st
    ELSE load_loop(load_step(st, insert(st.tree, ScriptKey(s, i), ScriptVal(s, i)),
                             ScriptKey(s, i), ScriptVal(s, i)),
                   s, i + 1, last)

\* The next call of script s.
Load(s) ==
    /\ ~failed /\ probes = 0 /\ loaded < ScriptLen
    /\ DoInsert(ScriptKey(s, loaded + 1), ScriptVal(s, loaded + 1))
    /\ loaded' = loaded + 1
    /\ UNCHANGED <<probes, btree2, inserted2, loaded2>>

\* The state after a run of the insert loop came back with outcome r.
Loaded(r) ==
    /\ btree' = r.tree
    /\ inserted' = r.ins
    /\ failed' = ~r.ok

\* The next LoadChunk calls of script s, as one run of the insert loop.
LoadMany(s) ==
    /\ ~failed /\ probes = 0
    /\ loaded % LoadChunk = 0 /\ loaded + LoadChunk <= ScriptLen
    /\ Loaded(load_loop([tree |-> btree, ins |-> inserted, ok |-> TRUE],
                        s, loaded + 1, loaded + LoadChunk))
    /\ calls' = <<>>
    /\ lastOp' = Op("load", 0, 0, FALSE)
    /\ loaded' = loaded + LoadChunk
    /\ UNCHANGED <<probes, btree2, inserted2, loaded2>>

\* A caller makes its free calls before the script, after it, or when the
\* root is full, and stays with free calls from then on.
CanProbe ==
    /\ ~failed
    /\ probes < MaxProbes
    /\ \/ probes > 0
       \/ loaded = 0
       \/ loaded = ScriptLen
       \/ btree.used = capacity(btree)

\* ------------------------------------------- Spec: insert, find and clear
\* The script "mixed", and free calls of insert(k, v), find(k) and clear()
\* with k in ProbeKeys; keys repeat.  The value of an insert is the number of
\* the call.  The probe keys are two keys the script brings early (calls 14
\* and 13), the key just below the first of them, and a key the script never
\* brings.
ProbeKeys == {Scramble(14), Scramble(14) - 1, Scramble(13), Scramble(KeySpace - 1)}

Init == InitOver(new)

LoadMixed == Load("mixed")

LoadManyMixed == LoadMany("mixed")

Insert ==
    /\ CanProbe
    /\ \E k \in ProbeKeys : DoInsert(k, loaded + probes + 1)
    /\ probes' = probes + 1
    /\ UNCHANGED <<loaded, btree2, inserted2, loaded2>>

\* t.find(k)
Find ==
    /\ CanProbe
    /\ \E k \in ProbeKeys :
         /\ lastOp' = Op("find", k, 0, FALSE)
         /\ failed' = (find(btree, k) = Panic)
    /\ calls' = <<>>
    /\ probes' = probes + 1
    /\ UNCHANGED <<btree, inserted, loaded, btree2, inserted2, loaded2>>

\* t.clear()
Clear ==
    /\ CanProbe
    /\ btree' = clear(btree)
    /\ inserted' = <<>>
    /\ lastOp' = Op("clear", 0, 0, FALSE)
    /\ calls' = <<>>
    /\ probes' = probes + 1
    /\ UNCHANGED <<failed, loaded, btree2, inserted2, loaded2>>

Next == LoadMixed \/ LoadManyMixed \/ Insert \/ Find \/ Clear

Spec == Init /\ [][Next]_vars

\* ------------------------------- SpecDistinct: inserts of pairwise distinct keys
\* The script "distinct", then free inserts of keys the script does not give;
\* every key is inserted at most once, with itself as its value, as
\* src/btree.rs:756-758 and src/btree_bench.rs:19-25 do.  The code never reads
\* a value, so the values do not steer the structure, and a value that names
\* its key makes every mix-up of two entries visible.
DistinctProbeKeys == {0} \cup {Scramble(KeySpace - j) : j \in 1..3}

InitDistinct == InitOver(new)

LoadDistinct == Load("distinct")

LoadManyDistinct == LoadMany("distinct")

InsertDistinct ==
    /\ CanProbe
    /\ \E k \in DistinctProbeKeys : k \notin DOMAIN inserted /\ DoInsert(k, k)
    /\ probes' = probes + 1
    /\ UNCHANGED <<loaded, btree2, inserted2, loaded2>>

NextDistinct == LoadDistinct \/ LoadManyDistinct \/ InsertDistinct

SpecDistinct == InitDistinct /\ [][NextDistinct]_vars

\* ------------------------------------- SpecOrder: one key set, two orders
\* Two fresh trees receive the pairs (k, k) of the first OrderLen calls of the
\* script "distinct": btree in the script's order, btree2 in ascending order
\* of the keys.
OrderKeys == {Scramble(i) : i \in 1..OrderLen}

\* The j-th smallest key of OrderKeys.
Ranked(j) == CHOOSE k \in OrderKeys : Cardinality({x \in OrderKeys : x < k}) = j - 1

InitOrder == InitOver(new)

InsertFirst ==
    /\ ~failed /\ loaded < OrderLen
    /\ DoInsert(Scramble(loaded + 1), Scramble(loaded + 1))
    /\ loaded' = loaded + 1
    /\ UNCHANGED <<probes, btree2, inserted2, loaded2>>

\* The state after insert(k, k) on the second tree came back with outcome r.
Returned2(r, k) ==
    /\ btree2' = r.tree
    /\ failed' = ~r.ok
    /\ calls' = r.calls
    /\ lastOp' = Op("insert", k, k, r.ret)
    /\ inserted2' = Record(inserted2, k, k)

InsertSecond ==
    /\ ~failed /\ loaded2 < OrderLen
    /\ Returned2(insert(btree2, Ranked(loaded2 + 1), Ranked(loaded2 + 1)),
                 Ranked(loaded2 + 1))
    /\ loaded2' = loaded2 + 1
    /\ UNCHANGED <<btree, inserted, loaded, probes>>

NextOrder == InsertFirst \/ InsertSecond

SpecOrder == InitOrder /\ [][NextOrder]_vars

\* ------------------------------------ SpecTest: the test build, t = 2
\* Every key of 1..MaxTestKey is inserted at most once, in any order, with
\* itself as its value, into a tree of the build with BTREE_MIN_DEGREE = 2.
TestKeys == 1..MaxTestKey

InitTest == InitOver(new_test)

InsertTest ==
    /\ ~failed
    /\ \E k \in TestKeys : k \notin DOMAIN inserted /\ DoInsert(k, k)
    /\ UNCHANGED <<loaded, probes, btree2, inserted2, loaded2>>

NextTest == InsertTest

SpecTest == InitTest /\ [][NextTest]_vars

\* ------------------------------------------------- measures of a tree
\* Number of child levels below the root, along slot 0.
RECURSIVE Height(_)
Height(n) == IF n.nodes[0].tag = "TreeNode" THEN 1 + Height(n.nodes[0].value) ELSE 0

\* The keys of a subtree, left to right, read from every array cell.
RECURSIVE KeySeqFrom(_, _)
KeySeqFrom(n, i) ==
    IF i \notin NodeIdx(n) THEN <<>>
    ELSE (IF n.nodes[i].tag = "TreeNode" THEN KeySeqFrom(n.nodes[i].value, 0) ELSE <<>>)
         \o (IF i \in KeyIdx(n) /\ n.keys[i].tag = "Some" THEN <<n.keys[i].value>> ELSE <<>>)
         \o KeySeqFrom(n, i + 1)

KeySeq(n) == KeySeqFrom(n, 0)

\* The values of a subtree, left to right, read from every array cell.
RECURSIVE ValSeqFrom(_, _)
ValSeqFrom(n, i) ==
    IF i \notin NodeIdx(n) THEN <<>>
    ELSE (IF n.nodes[i].tag = "TreeNode" THEN ValSeqFrom(n.nodes[i].value, 0)
          ELSE IF n.nodes[i].tag = "TreeLeaf" THEN <<n.nodes[i].value>> ELSE <<>>)
         \o ValSeqFrom(n, i + 1)

ValSeq(n) == ValSeqFrom(n, 0)

\* The keys held in key cells of leaf nodes.
RECURSIVE LeafKeys(_)
LeafKeys(n) ==
    IF n.nodes[0].tag = "TreeNode"
    THEN UNION {IF n.nodes[i].tag = "TreeNode" THEN LeafKeys(n.nodes[i].value) ELSE {}
                : i \in NodeIdx(n)}
    ELSE {n.keys[i].value : i \in {j \in KeyIdx(n) : n.keys[j].tag = "Some"}}

\* The keys inserted since new() / clear().
InsertedKeys == DOMAIN inserted

\* All 2t-1 key cells of a node are occupied.
FullOfKeys(n) == \A i \in KeyIdx(n) : n.keys[i].tag = "Some"

\* Arrays of the test build as the tests' helpers write them: the given
\* cells, then None.
KeyArr(ks) == [i \in KeyIdx(new_test) |-> IF i < Len(ks) THEN Some(ks[i + 1]) ELSE None]
LeafArr(vs) == [i \in NodeIdx(new_test) |-> IF i < Len(vs) THEN TreeLeaf(vs[i + 1]) ELSE None]

IsSplit(c) == c.fn = "split_child"


\* The keys held in key cells anywhere in a subtree.
RECURSIVE SubtreeKeys(_)
SubtreeKeys(n) ==
    {n.keys[i].value : i \in {j \in KeyIdx(n) : n.keys[j].tag = "Some"}}
    \cup UNION {IF n.nodes[i].tag = "TreeNode" THEN SubtreeKeys(n.nodes[i].value) ELSE {}
                : i \in NodeIdx(n)}

\* Number of occupied key cells in a subtree.
RECURSIVE KeyCountFrom(_, _)
RECURSIVE KeyCount(_)
KeyCountFrom(n, i) ==
    IF i \notin NodeIdx(n) THEN 0
    ELSE (IF n.nodes[i].tag = "TreeNode" THEN KeyCount(n.nodes[i].value) ELSE 0)
         + (IF i \in KeyIdx(n) /\ n.keys[i].tag = "Some" THEN 1 ELSE 0)
         + KeyCountFrom(n, i + 1)

KeyCount(n) == KeyCountFrom(n, 0)

\* Number of values stored in a subtree.
RECURSIVE ValCountFrom(_, _)
RECURSIVE ValCount(_)
ValCountFrom(n, i) ==
    IF i \notin NodeIdx(n) THEN 0
    ELSE (IF n.nodes[i].tag = "TreeNode" THEN ValCount(n.nodes[i].value)
          ELSE IF n.nodes[i].tag = "TreeLeaf" THEN 1 ELSE 0)
         + ValCountFrom(n, i + 1)

ValCount(n) == ValCountFrom(n, 0)

\* ------------------------------------------------------------------ C1
\* C1: after inserts of pairwise distinct keys, find(k) returns Some(v) with
\* the value inserted for k, for every inserted key k (also for the keys that
\* were promoted as medians and sit in no leaf's key cells).  SpecDistinct.
C1_EveryInsertedKeyFound ==
    \A k \in InsertedKeys : find(btree, k) = Some(inserted[k])

\* A three-level tree, one of whose inserted keys is in no leaf's key cells.
C1_Witness ==
    /\ Height(btree) = 2
    /\ \E k \in InsertedKeys \ LeafKeys(btree) : find(btree, k) = Some(k)

\* ------------------------------------------------------------------ C2
\* C2: every insert(k, v) returns true if and only if k was not inserted
\* earlier (since creation or the last clear), also for a key promoted to a
\* separator.  Spec.
C2_InsertReturnsTrueIffNew ==
    [][lastOp'.op = "insert" => (lastOp'.ret <=> lastOp'.key \notin InsertedKeys)]_vars

\* ------------------------------------------------------------------ C3
\* C3: for every key inserted at least once, find(k) returns the value of the
\* most recent insert(k, _), whatever was inserted or split afterwards.  Spec.
C3_FindReturnsLatestValue ==
    \A k \in InsertedKeys : find(btree, k) = Some(inserted[k])

\* An overwriting insert into a split tree that still stores a stale value.
C3_Witness ==
    /\ lastOp.op = "insert" /\ lastOp.ret = FALSE
    /\ Height(btree) >= 1
    /\ ValCount(btree) > Cardinality(InsertedKeys)
    /\ find(btree, lastOp.key) = Some(lastOp.value)

\* ------------------------------------------------------------------ C4
\* C4: find(k) returns None for every key k that has not been inserted since
\* creation or the last clear.  Spec.
C4_AbsentKeyNotFound ==
    \A k \in Keys \ InsertedKeys : find(btree, k) = None

\* ------------------------------------------------------------------ C5
\* C5: with t = 2, inserting 4, 5, 6 fills the leaf root; inserting 10 then
\* yields a root with used = 1 and keys [5], a left leaf with keys [4] and
\* slots [value(4), value(5)], a right leaf with keys [6, 10] and slots
\* [value(6), value(10)]; find(4), find(5), find(6), find(10) return their
\* values and find(7) returns None.  SpecTest.
C5_SplitRootScenario ==
    /\ InsertedKeys = {4, 5, 6} =>
         /\ btree.used = capacity(btree)
         /\ btree.keys = KeyArr(<<4, 5, 6>>)
         /\ btree.nodes = LeafArr(<<4, 5, 6>>)
    /\ (InsertedKeys = {4, 5, 6, 10} /\ lastOp.key = 10) =>
         /\ btree.used = 1
         /\ btree.keys = KeyArr(<<5>>)
         /\ btree.nodes[0].tag = "TreeNode" /\ btree.nodes[1].tag = "TreeNode"
         /\ \A i \in NodeIdx(btree) : i > 1 => btree.nodes[i] = None
         /\ btree.nodes[0].value.keys = KeyArr(<<4>>)
         /\ btree.nodes[0].value.nodes = LeafArr(<<4, 5>>)
         /\ btree.nodes[1].value.keys = KeyArr(<<6, 10>>)
         /\ btree.nodes[1].value.nodes = LeafArr(<<6, 10>>)
         /\ \A k \in {4, 5, 6, 10} : find(btree, k) = Some(k)
         /\ find(btree, 7) = None

\* 10 has just been inserted after 4, 5 and 6, in the build with t = 2.
C5_Witness ==
    /\ MinDegree(btree) = 2
    /\ InsertedKeys = {4, 5, 6, 10} /\ lastOp.key = 10
    /\ calls[1].fn = "split_child"

\* ------------------------------------------------------------------ C6
\* C6: is_empty() is true exactly when no slot of the root is occupied: true
\* for new(), false after every insert (also one that splits the root), true
\* again after clear(), after which len() is 0 and find(k) is None for all k.
\* Spec.
C6_IsEmptyIffNoSlot ==
    /\ is_empty(btree) <=> (\A i \in NodeIdx(btree) : btree.nodes[i].tag = "None")
    /\ is_empty(btree) <=> InsertedKeys = {}
    /\ lastOp.op = "new" => is_empty(btree)
    /\ lastOp.op = "insert" => ~is_empty(btree)
    /\ lastOp.op = "clear" =>
         /\ is_empty(btree)
         /\ len(btree) = 0
         /\ \A k \in Keys : find(btree, k) = None

\* clear() has just emptied a tree that scripted inserts and a free call built.
C6_Witness ==
    /\ lastOp.op = "clear" /\ probes = 2 /\ loaded > 0
    /\ is_empty(btree) /\ len(btree) = 0

\* ------------------------------------------------------------------ C7
\* C7: two fresh trees given the same set of pairs in two orders return the
\* same find(k) for every key k of the key domain, in the set or not.
\* SpecOrder.
C7_OrderIndependentLookups ==
    inserted = inserted2 => \A k \in Keys : find(btree, k) = find(btree2, k)

\* ------------------------------------------------------------------ C8
\* C8: split_child(parent, pos) on a non-full parent whose slots[pos] is a
\* full child leaves the child and the new right sibling with used = t-1,
\* increases parent.used by one, puts the child's former keys[t-1] at
\* parent.keys[pos] and the sibling at parent.slots[pos+1], keeps the parent's
\* other keys and children in order, and moves the child's upper t-1 keys and
\* upper t slots (an occupied overflow slot included) into the sibling, so no
\* key or value of the subtree is lost or duplicated.  SpecDistinct.
\*
\* The precondition is the claim's (child.used = 2t-1) and also admits the call
\* of the root pre-split, whose child holds 2t-1 keys under used = 0.
C8_SplitPre(c) ==
    /\ c.parent.used < capacity(c.parent)
    /\ c.parent.nodes[c.pos].tag = "TreeNode"
    /\ \/ c.parent.nodes[c.pos].value.used = capacity(c.parent.nodes[c.pos].value)
       \/ FullOfKeys(c.parent.nodes[c.pos].value)

C8_SplitPost(c) ==
    LET p == c.parent
        q == c.result
        pos == c.pos
        t == BTREE_MIN_DEGREE
        child == p.nodes[pos].value
        left == q.nodes[pos].value
        right == q.nodes[pos + 1].value
    IN /\ c.ok
       /\ q.nodes[pos].tag = "TreeNode" /\ q.nodes[pos + 1].tag = "TreeNode"
       /\ left.used = t - 1 /\ right.used = t - 1
       /\ q.used = p.used + 1
       /\ child.keys[t - 1].tag = "Some" /\ q.keys[pos] = child.keys[t - 1]
       /\ \A i \in KeyIdx(p) : /\ i < pos => q.keys[i] = p.keys[i]
                               /\ i > pos => q.keys[i] = p.keys[i - 1]
       /\ \A i \in NodeIdx(p) : /\ i < pos => q.nodes[i] = p.nodes[i]
                                /\ i > pos + 1 => q.nodes[i] = p.nodes[i - 1]
       /\ \A i \in KeyIdx(p) : /\ left.keys[i] = IF i < t - 1 THEN child.keys[i] ELSE None
                               /\ right.keys[i] = IF i < t - 1 THEN child.keys[i + t] ELSE None
       /\ \A i \in NodeIdx(p) : /\ left.nodes[i] = IF i < t THEN child.nodes[i] ELSE None
                                /\ right.nodes[i] = IF i < t THEN child.nodes[i + t] ELSE None
       /\ KeySeq(q) = KeySeq(p)
       /\ ValSeq(q) = ValSeq(p)

C8_SplitChildContract ==
    \A i \in DOMAIN calls :
        (IsSplit(calls[i]) /\ C8_SplitPre(calls[i])) => C8_SplitPost(calls[i])

\* insert_non_full has split a middle child (keys and children to its right
\* had to move) whose used is 2t-1 and whose overflow slot is occupied.
C8_Witness ==
    \E i \in DOMAIN calls :
        /\ IsSplit(calls[i]) /\ calls[i].ok
        /\ calls[i].pos < calls[i].parent.used
        /\ calls[i].parent.nodes[calls[i].pos].value.used = BTREE_KEYS_UBOUND
        /\ calls[i].parent.nodes[calls[i].pos].value.nodes[BTREE_KEYS_UBOUND].tag = "TreeLeaf"

\* ------------------------------------------------------------------ C9
\* C9: an insert made while the root holds 2t-1 keys raises the height by
\* exactly one: the former root's keys and slots move into one child of the
\* emptied root, and split_child(root, 0) leaves the root with one key and two
\* children; an insert made while the root holds fewer keys keeps the height.
\* Spec.
C9_PreSplitCall(old, c) ==
    /\ IsSplit(c) /\ c.pos = 0 /\ c.ok
    /\ c.parent.used = 0
    /\ \A i \in KeyIdx(old) : c.parent.keys[i] = None
    /\ \A i \in NodeIdx(old) : i > 0 => c.parent.nodes[i] = None
    /\ c.parent.nodes[0].tag = "TreeNode"
    /\ c.parent.nodes[0].value.keys = old.keys
    /\ c.parent.nodes[0].value.nodes = old.nodes
    /\ c.result.used = 1
    /\ c.result.keys[0].tag = "Some"
    /\ \A i \in NodeIdx(old) : c.result.nodes[i].tag = (IF i <= 1 THEN "TreeNode" ELSE "None")

C9_HeightOnlyByRootPreSplit ==
    [][lastOp'.op = "insert" =>
         IF btree.used = BTREE_KEYS_UBOUND
         THEN /\ Height(btree') = Height(btree) + 1
              /\ C9_PreSplitCall(btree, calls'[1])
              /\ btree'.used = 1
              /\ \A i \in NodeIdx(btree) :
                   btree'.nodes[i].tag = (IF i <= 1 THEN "TreeNode" ELSE "None")
         ELSE /\ Height(btree') = Height(btree)
              /\ ~IsSplit(calls'[1])]_vars

\* The root pre-split has just run on an internal root: three levels.
C9_Witness ==
    /\ lastOp.op = "insert"
    /\ IsSplit(calls[1])
    /\ Height(btree) = 2
    /\ btree.used = 1

\* ----------------------------------------------------------------- C10
\* C10: in every sequence of insert, find and clear calls (keys may repeat),
\* insert_non_full is only entered on a node with used < 2t-1, split_child is
\* only called on a slot holding a full Child (one holding 2t-1 keys) under a
\* parent with used < 2t-1, every array index stays within capacity, and no
\* fail!() branch or unwrap of an empty key is executed.  Spec.
C10_CallOk(c) ==
    IF IsSplit(c)
    THEN /\ c.ok
         /\ c.parent.used < BTREE_KEYS_UBOUND
         /\ c.pos \in NodeIdx(c.parent)
         /\ c.parent.nodes[c.pos].tag = "TreeNode"
         /\ FullOfKeys(c.parent.nodes[c.pos].value)
    ELSE c.used < BTREE_KEYS_UBOUND /\ c.cap = BTREE_KEYS_UBOUND

C10_NoFatalPath ==
    /\ ~failed
    /\ \A i \in DOMAIN calls : C10_CallOk(calls[i])
    /\ \A k \in Keys : find(btree, k) # Panic

\* insert_non_full has split a child all of whose 2t slots were occupied, in a
\* tree that stores stale values of re-inserted keys.
C10_Witness ==
    /\ lastOp.op = "insert" /\ ~failed
    /\ \E i \in DOMAIN calls :
         /\ i > 1 /\ IsSplit(calls[i])
         /\ calls[i].parent.nodes[calls[i].pos].value.used = BTREE_KEYS_UBOUND
         /\ calls[i].parent.nodes[calls[i].pos].value.nodes[BTREE_KEYS_UBOUND].tag = "TreeLeaf"
    /\ ValCount(btree) > Cardinality(InsertedKeys) + 1

\* ----------------------------------------------------------------- C11
\* C11: in every node of every tree reachable from new() by insert calls,
\* exactly the slots with index in [0, used+1) are occupied and every slot
\* with index greater than used is empty.  Spec.
Occupied(n, i) == n.nodes[i].tag # "None"

\* The claim as stated, for a subtree: slots [0, used+1) and no others.
RECURSIVE C11_ExactlyUsedPlusOne(_)
C11_ExactlyUsedPlusOne(n) ==
    /\ \A i \in NodeIdx(n) : Occupied(n, i) <=> i < n.used + 1
    /\ \A i \in NodeIdx(n) :
         n.nodes[i].tag = "TreeNode" => C11_ExactlyUsedPlusOne(n.nodes[i].value)

\* The claim as stated, over the trees that hold at least one insert.
C11_SlotsUsedPlusOneOccupied ==
    InsertedKeys # {} => C11_ExactlyUsedPlusOne(btree)

\* As amended: the rightmost leaf of the tree (the node reached through
\* slots[used] of every internal node; the root itself while it is a leaf or
\* empty) has exactly the slots [0, used) occupied, its overflow slot is empty;
\* every other node has exactly the slots [0, used+1) occupied.
RECURSIVE C11_SlotsOf(_, _)
C11_SlotsOf(n, rightmost) ==
    LET count == IF rightmost /\ n.nodes[0].tag # "TreeNode" THEN n.used ELSE n.used + 1
    IN /\ \A i \in NodeIdx(n) : Occupied(n, i) <=> i < count
       /\ \A i \in NodeIdx(n) :
            n.nodes[i].tag = "TreeNode" =>
                C11_SlotsOf(n.nodes[i].value, rightmost /\ i = n.used)

C11_SlotOccupancy == C11_SlotsOf(btree, TRUE)

\* A three-level tree that stores a stale value in some overflow slot.
C11_Witness ==
    /\ Height(btree) = 2
    /\ ValCount(btree) > Cardinality(InsertedKeys)
    /\ lastOp.op = "insert"

\* ----------------------------------------------------------------- C12
\* C12: in every tree reachable by insert calls (keys may repeat) every node
\* has 0 <= used <= 2t-1, keys[0..used) occupied, strictly ascending and
\* pairwise distinct, keys[used..2t-1) empty; and in every internal node every
\* key stored anywhere in the subtree slots[i] is <= keys[i] (for i < used) and
\* > keys[i-1] (for i > 0), so that find_node_pos routes each of those keys
\* into slots[i] and no other slot.  Spec.
C12_KeysOrdered(n) ==
    /\ n.used \in 0..BTREE_KEYS_UBOUND
    /\ \A i \in KeyIdx(n) : (n.keys[i].tag = "Some") <=> i < n.used
    /\ \A i \in KeyIdx(n) :
         (0 < i /\ i < n.used) => n.keys[i - 1].value < n.keys[i].value

C12_Separates(n, i) ==
    \A k \in SubtreeKeys(n.nodes[i].value) :
        /\ i < n.used => k <= n.keys[i].value
        /\ i > 0 => k > n.keys[i - 1].value
        /\ find_node_pos(n, k) = i

RECURSIVE C12_Subtree(_)
C12_Subtree(n) ==
    /\ C12_KeysOrdered(n)
    /\ \A i \in NodeIdx(n) :
         n.nodes[i].tag = "TreeNode" =>
             /\ i <= n.used
             /\ C12_Separates(n, i)
             /\ C12_Subtree(n.nodes[i].value)

C12_SearchOrder == C12_Subtree(btree)

\* A three-level tree in which a re-inserted separator key also sits in a leaf.
C12_Witness ==
    /\ Height(btree) = 2
    /\ lastOp.op = "insert"
    /\ KeyCount(btree) > Cardinality(SubtreeKeys(btree))

\* ----------------------------------------------------------------- C13
\* C13: in every tree reachable by insert and clear calls every node is
\* homogeneous (its occupied slots are all Child or all Value, so slots[0]
\* classifies the node), all leaf nodes are at the same depth, and an internal
\* node never holds a Value or an empty slot at a position insert or find
\* descends into.  Spec.
Homogeneous(n) ==
    Cardinality({n.nodes[i].tag : i \in NodeIdx(n)} \ {"None"}) <= 1

\* The depths at which the subtree of n, itself at depth d, has its leaves
\* (the nodes whose first slot is no Child).
RECURSIVE LeafDepths(_, _)
LeafDepths(n, d) ==
    IF n.nodes[0].tag = "TreeNode"
    THEN UNION {IF n.nodes[i].tag = "TreeNode" THEN LeafDepths(n.nodes[i].value, d + 1) ELSE {}
                : i \in NodeIdx(n)}
    ELSE {d}

\* The keys that stand for every key in the scan of find_node_pos over node n:
\* the scan only compares the key with the node's keys, so a key is routed as
\* the smallest key of n that is not below it, or as a key above all of them.
RouteKeys(n) ==
    {n.keys[i].value : i \in {j \in KeyIdx(n) : n.keys[j].tag = "Some"}}
    \cup {KeySpace} \cup ProbeKeys

\* Every position the descent can take in an internal node holds a Child.
C13_DescentOk(n) ==
    n.nodes[0].tag = "TreeNode" =>
        /\ \A pos \in 0..n.used : pos \in NodeIdx(n) /\ n.nodes[pos].tag = "TreeNode"
        /\ \A k \in RouteKeys(n) : n.nodes[find_node_pos(n, k)].tag = "TreeNode"

RECURSIVE C13_Subtree(_)
C13_Subtree(n) ==
    /\ Homogeneous(n)
    /\ C13_DescentOk(n)
    /\ \A i \in NodeIdx(n) :
         n.nodes[i].tag = "TreeNode" => C13_Subtree(n.nodes[i].value)

C13_Shape ==
    /\ C13_Subtree(btree)
    /\ Cardinality(LeafDepths(btree, 0)) = 1
    /\ LeafDepths(btree, 0) = {Height(btree)}

\* A find on a three-level tree: the root holds one key over two internal
\* children, and every leaf is at depth 2.
C13_Witness ==
    /\ lastOp.op = "find"
    /\ LeafDepths(btree, 0) = {2}
    /\ btree.used = 1
    /\ \A i \in 0..1 : btree.nodes[i].value.nodes[0].tag = "TreeNode"

====
